---- MODULE Spec2Model ----
(***************************************************************************)
(* Model of google/auth/transport/aiohttp_req.py: AuthorizedSession.request *)
(* (authorize -> send -> detect refreshable status -> refresh under the     *)
(* session's lock -> recursive retry) for several logical calls in flight   *)
(* on one session.                                                          *)
(*                                                                          *)
(* A logical call is one external invocation of request(); its recursive    *)
(* frames are tail calls, so one frame per call is live at a time and the   *)
(* frame's locals are the per-call variables below.                         *)
(*                                                                          *)
(* Steps are cut at the suspension points of the coroutine: the send, the   *)
(* wait for the refresh lock and the refresh. What a time-guard measures    *)
(* (the step's elapsed time, lock wait included) is an input of the step.   *)
(* TimeoutGuard and the credentials object live outside this file and are   *)
(* modelled from their documented behaviour.                                *)
(***************************************************************************)
EXTENDS Integers, Sequences, FiniteSets, TLC

\* ---------------------------------------------------------------- bounds
MaxAttempts == 2   \* largest max_refresh_attempts a session is built with
MaxBudget == 1     \* largest max_allowed_time an external caller passes
MaxDur == 2        \* longest elapsed time one guarded step takes
MaxInvocations == 3 \* how many times the Request invoker is called

\* The logical calls in flight on the session.
CallIds == {"c1", "c2"}

\* Response statuses the transport answers with.
Statuses == {200, 401, 403}

\* refresh_status_codes a session is built with: the default, "unauthorized".
RefreshCodeSets == {{401}}

\* Python's None and a present value.
None == <<>>
Some(x) == <<x>>

Durations == 0..MaxDur
Budgets == {None} \cup {Some(t) : t \in 1..MaxBudget}

\* Header names: what the caller put in its mapping, what credentials add.
CallerHeaders == {"accept"}
AuthHeader == "authorization"

\* Keyword options of request(): what the caller passes on to the transport,
\* and the internal key that carries the refresh-attempt counter.
AttemptKey == "_credential_refresh_attempt"
CallerOptions == ("ssl" :> 0)
EmptyOptions == [k \in {} |-> 0]

VARIABLES
    \* ---- AuthorizedSession fields
    max_refresh_attempts,   \* self._max_refresh_attempts
    refresh_status_codes,   \* self._refresh_status_codes
    auth_request_session,   \* self._auth_request_session: "None" | "open" | "closed"
    refresh_lock,           \* self._refresh_lock: "unlocked" or the call holding it
    \* ---- one frame of request() per logical call
    pc,                     \* where the call is
    headers,                \* the headers argument: "None" or "caller" (a reference)
    heap,                   \* the mappings: the caller's object and the frame's copy
    request_headers,        \* the object the local request_headers references
    max_allowed_time,       \* the frame's max_allowed_time argument
    remaining_time,         \* the local remaining_time
    attempt,                \* the local _credential_refresh_attempt
    kwargs,                 \* the local kwargs, after the pop
    response,               \* the local response (None before the first send)
    result,                 \* how the logical call ended: "response" or an exception
    \* ---- history, for stating the properties
    log,                    \* transport sends and refreshes the call invoked, in order
    statuses,               \* the statuses the call's sends returned, in order
    received,               \* what before_request last received as headers
    auth_elapsed,           \* while the send is in flight: how long before_request took
    late,                   \* the outermost frame's authorization plus send took over
                            \* its max_allowed_time (forgotten when the call recurses)
    overrun,                \* a time-guard of the call found its step over the budget
    raised,                 \* the credentials step that raised, if one did
    unbounded,              \* the outermost call was given no max_allowed_time
    closes,                 \* how many times the call closed the auth transport
    forwarded,              \* the option keys the call's sends passed to the transport
    \* ---- the Request invoker (Request.__call__), observed on its own
    invoker_pc,             \* "idle", or "awaiting" the answer of session.request
    invoker_sent,           \* how many times it called self.session.request
    invoker_log             \* per invocation: what the transport did, what came out

sessionVars == <<max_refresh_attempts, refresh_status_codes, auth_request_session,
                 refresh_lock>>
frameVars == <<pc, headers, heap, request_headers, max_allowed_time, remaining_time,
               attempt, kwargs, response, result>>
historyVars == <<log, statuses, received, auth_elapsed, late, overrun, raised, unbounded,
                 closes, forwarded>>
invokerVars == <<invoker_pc, invoker_sent, invoker_log>>
vars == <<sessionVars, frameVars, historyVars, invokerVars>>

\* ---------------------------------------------------------------- helpers

\* requests.TimeoutGuard.__exit__: the budget is None (no check, None passed on)
\* or a number; remaining = budget - elapsed; a step that overran the budget
\* raises the timeout error, which supersedes the error of the step itself.
TimeoutGuard(budget, elapsed, failed) ==
    IF budget # None /\ elapsed > budget[1]
    THEN [exc |-> "TimeoutError", remaining_timeout |-> Some(budget[1] - elapsed)]
    ELSE [exc |-> IF failed THEN "error" ELSE "none",
          remaining_timeout |-> IF budget = None \/ failed
                                THEN budget ELSE Some(budget[1] - elapsed)]

\* headers.copy() if headers is not None else {}: a new mapping object.
CopyHeadersAlias(hp, h) ==
    IF h = "None"
    THEN [ref |-> "copy", heap |-> [hp EXCEPT !["copy"] = {}]]
    ELSE [ref |-> h, heap |-> hp]
CopyHeaders(hp, h) ==
    [ref |-> "copy",
     heap |-> [hp EXCEPT !["copy"] = IF h = "None" THEN {} ELSE hp[h]]]

\* credentials.before_request(auth_request, method, url, request_headers):
\* adds the authorization header to the mapping it is given.
before_request(hp, ref) == [hp EXCEPT ![ref] = @ \cup {AuthHeader}]

\* kwargs.pop("_credential_refresh_attempt", 0): the counter's value, 0 when
\* the key is absent, and the options without the key.
PopAttemptKeepsKey(kw) ==
    [value |-> IF AttemptKey \in DOMAIN kw THEN kw[AttemptKey] ELSE 0, rest |-> kw]
PopAttempt(kw) ==
    [value |-> IF AttemptKey \in DOMAIN kw THEN kw[AttemptKey] ELSE 0,
     rest |-> [k \in DOMAIN kw \ {AttemptKey} |-> kw[k]]]

\* The options of the recursive call:
\* _credential_refresh_attempt=_credential_refresh_attempt + 1, **kwargs.
RecurseOptions(kw, n) == (AttemptKey :> n + 1) @@ kw

\* The condition of the refresh branch.
ShouldRefresh(status, n) ==
    status \in refresh_status_codes /\ n < max_refresh_attempts


\* async with self._refresh_lock: the lock can be taken when nobody holds it.
LockFreeAlways(l) == TRUE
LockFreeOrRefreshing(l) == l = "unlocked" \/ \E j \in CallIds : l = j /\ pc[j] = "refresh"
LockFree(l) == l = "unlocked"

\* Leaving the async with block: the lock is released whether the refresh
\* returned, raised (exc) or ran over time, and before request() recurses.
LockKeptOnRecursion(holder, exc) == IF exc = "none" THEN holder ELSE "unlocked"
LockKeptOnError(holder, exc) == IF exc = "none" THEN "unlocked" ELSE holder
LockNeverReleased(holder, exc) == holder
LockAfterRefresh(holder, exc) == "unlocked"

\* Inside the lock: the call hands credentials.refresh to the executor,
\* whether or not another call refreshed the credentials meanwhile.
InvokeRefreshUnlessRefreshed(i) ==
    IF \E j \in CallIds \ {i} : \E k \in 1..Len(log[j]) : log[j][k] = "refresh"
    THEN log[i]
    ELSE Append(log[i], "refresh")
InvokeRefresh(i) == Append(log[i], "refresh")

\* max_allowed_time=remaining_time in the recursive call.
RecurseBudgetZero(rem) == IF rem = None THEN Some(0) ELSE rem
RecurseBudget(rem) == rem

\* headers=headers in the recursive call: the caller's argument, not the
\* frame's enriched request_headers.
RecurseHeaders(h, rh) == h

\* No step of request() is wrapped in try/except: whatever a guarded step or
\* its time-guard raises leaves request(), through every recursive frame.
PropagatesOnlyTimeout(exc) == exc = "TimeoutError"
PropagatesOnlyError(exc) == exc = "error"
Propagates(exc) == exc # "none"

\* return await self.request(...): a frame that recursed hands the inner
\* frame's result straight to its caller and never reaches the close at the
\* end of request(). n outer frames add this many closes on the way out.
UnwindClosesPerFrame(n) == n
UnwindCloses(n) == 0

\* ---------------------------------------------------------------- Init

\* AuthorizedSession.__init__: the lock is free; the session creates (and
\* owns) an auth transport only when the caller supplied no auth_request.
Init ==
    /\ max_refresh_attempts \in 0..MaxAttempts
    /\ refresh_status_codes \in RefreshCodeSets
    /\ auth_request_session \in {"None", "open"}
    /\ refresh_lock = "unlocked"
    /\ pc = [i \in CallIds |-> "idle"]
    /\ headers = [i \in CallIds |-> "None"]
    /\ heap = [i \in CallIds |-> [o \in {"caller", "copy"} |-> {}]]
    /\ request_headers = [i \in CallIds |-> "copy"]
    /\ max_allowed_time = [i \in CallIds |-> None]
    /\ remaining_time = [i \in CallIds |-> None]
    /\ attempt = [i \in CallIds |-> 0]
    /\ kwargs = [i \in CallIds |-> EmptyOptions]
    /\ response = [i \in CallIds |-> None]
    /\ result = [i \in CallIds |-> "none"]
    /\ log = [i \in CallIds |-> <<>>]
    /\ statuses = [i \in CallIds |-> <<>>]
    /\ received = [i \in CallIds |-> None]
    /\ auth_elapsed = [i \in CallIds |-> 0]
    /\ late = [i \in CallIds |-> FALSE]
    /\ overrun = [i \in CallIds |-> FALSE]
    /\ raised = [i \in CallIds |-> "none"]
    /\ unbounded = [i \in CallIds |-> FALSE]
    /\ closes = [i \in CallIds |-> 0]
    /\ forwarded = [i \in CallIds |-> {}]
    /\ invoker_pc = "idle"
    /\ invoker_sent = 0
    /\ invoker_log = <<>>

\* ---------------------------------------------------------------- actions

\* The entry of a frame of request(): pop the attempt counter, copy the
\* headers, take max_allowed_time as the remaining time.
EnterFrame(i, h, hp, t, kw) ==
    LET c == CopyHeaders(hp, h)
        popped == PopAttempt(kw)
    IN
    /\ headers' = [headers EXCEPT ![i] = h]
    /\ heap' = [heap EXCEPT ![i] = c.heap]
    /\ request_headers' = [request_headers EXCEPT ![i] = c.ref]
    /\ max_allowed_time' = [max_allowed_time EXCEPT ![i] = t]
    /\ remaining_time' = [remaining_time EXCEPT ![i] = t]
    /\ attempt' = [attempt EXCEPT ![i] = popped.value]
    /\ kwargs' = [kwargs EXCEPT ![i] = popped.rest]
    /\ pc' = [pc EXCEPT ![i] = "auth"]

\* The frame's locals stay as they are (hp: the call's mappings after the step).
KeepFrame(i, hp) ==
    /\ heap' = [heap EXCEPT ![i] = hp]
    /\ UNCHANGED <<headers, request_headers, max_allowed_time, attempt, kwargs>>

\* request() is left, by return or by exception: its locals are gone, and so is
\* the frame's copy of the headers; the caller's mapping lives on.
LeaveFrame(i, hp) ==
    /\ heap' = [heap EXCEPT ![i] = [hp EXCEPT !["copy"] = {}]]
    /\ request_headers' = [request_headers EXCEPT ![i] = "copy"]
    /\ max_allowed_time' = [max_allowed_time EXCEPT ![i] = None]
    /\ remaining_time' = [remaining_time EXCEPT ![i] = None]
    /\ attempt' = [attempt EXCEPT ![i] = 0]
    /\ kwargs' = [kwargs EXCEPT ![i] = EmptyOptions]
    /\ UNCHANGED headers

\* The call raises exc: nothing in request() catches it.
Raise(i, exc, hp) ==
    /\ pc' = [pc EXCEPT ![i] = "failed"]
    /\ result' = [result EXCEPT ![i] = exc]
    /\ response' = [response EXCEPT ![i] = None]
    /\ LeaveFrame(i, hp)

\* An external caller invokes request(method, url, headers=h, max_allowed_time=t)
\* with its own mapping (content c) or with no headers, and with its options.
Request(i, h, c, t) ==
    /\ pc[i] = "idle"
    /\ EnterFrame(i, h, [heap[i] EXCEPT !["caller"] = c], t, CallerOptions)
    /\ unbounded' = [unbounded EXCEPT ![i] = t = None]
    /\ UNCHANGED <<sessionVars, response, result, log, statuses, received, auth_elapsed,
                   late, overrun, raised, closes, forwarded, invokerVars>>

\* First time-guard: credentials.before_request on the frame's headers, which
\* takes d and may raise; then the transport send is issued. The guard's
\* remaining_timeout is not read: remaining_time stays max_allowed_time.
BeforeRequest(i, d, ok) ==
    LET g == TimeoutGuard(remaining_time[i], d, ~ok)
        hp == before_request(heap[i], request_headers[i])
    IN
    /\ pc[i] = "auth"
    /\ received' = [received EXCEPT ![i] =
                        Some([ref |-> request_headers[i],
                              content |-> heap[i][request_headers[i]]])]
    /\ overrun' = [overrun EXCEPT ![i] = @ \/ g.exc = "TimeoutError"]
    /\ raised' = [raised EXCEPT ![i] = IF ok THEN @ ELSE "before_request"]
    /\ IF Propagates(g.exc)
       THEN /\ Raise(i, IF g.exc = "error" THEN "CredentialsError" ELSE g.exc, hp)
            /\ UNCHANGED <<log, auth_elapsed, forwarded>>
       ELSE /\ pc' = [pc EXCEPT ![i] = "send"]
            /\ log' = [log EXCEPT ![i] = Append(@, "send")]
            /\ forwarded' = [forwarded EXCEPT ![i] = @ \cup DOMAIN kwargs[i]]
            /\ auth_elapsed' = [auth_elapsed EXCEPT ![i] = d]
            /\ KeepFrame(i, hp)
            /\ UNCHANGED <<remaining_time, response, result>>
    /\ UNCHANGED <<sessionVars, statuses, late, unbounded, closes, invokerVars>>

\* await self._auth_request_session.close() and return response (r): the
\* attribute is None when the caller supplied auth_request, and None has no
\* close().
CloseAndReturn(i, r) ==
    IF auth_request_session = "None"
    THEN /\ Raise(i, "AttributeError", heap[i])
         /\ UNCHANGED <<auth_request_session, closes>>
    ELSE /\ auth_request_session' = "closed"
         /\ closes' = [closes EXCEPT ![i] = @ + 1 + UnwindCloses(attempt[i])]
         /\ pc' = [pc EXCEPT ![i] = "done"]
         /\ result' = [result EXCEPT ![i] = "response"]
         /\ response' = [response EXCEPT ![i] = r]
         /\ LeaveFrame(i, heap[i])

\* Second time-guard: the transport send answers after d with a status
\* (o = Some(status)) or raises (o = None); then the refresh condition is
\* evaluated.
SuperRequest(i, o, d) ==
    LET g == TimeoutGuard(remaining_time[i], d, o = None)
        s == IF o = None THEN 0 ELSE o[1]
        r == Some([status |-> s, send |-> Len(statuses[i]) + 1])
    IN
    /\ pc[i] = "send"
    /\ overrun' = [overrun EXCEPT ![i] = @ \/ g.exc = "TimeoutError"]
    /\ late' = [late EXCEPT ![i] = @ \/ ( /\ attempt[i] = 0
                                          /\ max_allowed_time[i] # None
                                          /\ auth_elapsed[i] + d > max_allowed_time[i][1] )]
    /\ auth_elapsed' = [auth_elapsed EXCEPT ![i] = 0]
    /\ IF Propagates(g.exc)
       THEN /\ Raise(i, IF g.exc = "error" THEN "ClientError" ELSE g.exc, heap[i])
            /\ UNCHANGED <<statuses, auth_request_session, closes>>
       ELSE /\ statuses' = [statuses EXCEPT ![i] = Append(@, s)]
            /\ IF ShouldRefresh(s, attempt[i])
               THEN /\ pc' = [pc EXCEPT ![i] = "lock"]
                    /\ response' = [response EXCEPT ![i] = r]
                    /\ remaining_time' = [remaining_time EXCEPT ![i] = g.remaining_timeout]
                    /\ KeepFrame(i, heap[i])
                    /\ UNCHANGED <<result, auth_request_session, closes>>
               ELSE CloseAndReturn(i, r)
    /\ UNCHANGED <<max_refresh_attempts, refresh_status_codes, refresh_lock, log,
                   received, raised, unbounded, forwarded, invokerVars>>

\* async with self._refresh_lock: the call takes the lock and hands
\* credentials.refresh to the executor.
AcquireRefreshLock(i) ==
    /\ pc[i] = "lock"
    /\ LockFree(refresh_lock)
    /\ refresh_lock' = i
    /\ pc' = [pc EXCEPT ![i] = "refresh"]
    /\ log' = [log EXCEPT ![i] = InvokeRefresh(i)]
    /\ UNCHANGED <<max_refresh_attempts, refresh_status_codes, auth_request_session,
                   headers, heap, request_headers, max_allowed_time, remaining_time,
                   attempt, kwargs, response, result, statuses, received, auth_elapsed,
                   late, overrun, raised, unbounded, closes, forwarded, invokerVars>>

\* credentials.refresh returns or raises; the lock is released on the way out
\* of the async with; the third time-guard, which timed the lock wait and the
\* refresh (d in all), exits; then request() calls itself.
Refresh(i, d, ok) ==
    LET g == TimeoutGuard(remaining_time[i], d, ~ok) IN
    /\ pc[i] = "refresh"
    /\ refresh_lock' = LockAfterRefresh(refresh_lock, g.exc)
    /\ overrun' = [overrun EXCEPT ![i] = @ \/ g.exc = "TimeoutError"]
    /\ raised' = [raised EXCEPT ![i] = IF ok THEN @ ELSE "refresh"]
    /\ IF Propagates(g.exc)
       THEN /\ Raise(i, IF g.exc = "error" THEN "RefreshError" ELSE g.exc, heap[i])
            /\ UNCHANGED late
       ELSE /\ EnterFrame(i, RecurseHeaders(headers[i], request_headers[i]), heap[i],
                          RecurseBudget(g.remaining_timeout),
                          RecurseOptions(kwargs[i], attempt[i]))
            /\ late' = [late EXCEPT ![i] = FALSE]
            /\ UNCHANGED <<response, result>>
    /\ UNCHANGED <<max_refresh_attempts, refresh_status_codes, auth_request_session,
                   log, statuses, received, auth_elapsed, unbounded, closes, forwarded,
                   invokerVars>>

Next ==
    \/ \E i \in CallIds, h \in {"None", "caller"}, t \in Budgets :
          Request(i, h, IF h = "None" THEN {} ELSE CallerHeaders, t)
    \/ \E i \in CallIds, d \in Durations, ok \in BOOLEAN : BeforeRequest(i, d, ok)
    \/ \E i \in CallIds, o \in {None} \cup {Some(s) : s \in Statuses}, d \in Durations :
          SuperRequest(i, o, d)
    \/ \E i \in CallIds : AcquireRefreshLock(i)
    \/ \E i \in CallIds, d \in Durations, ok \in BOOLEAN : Refresh(i, d, ok)

Spec == Init /\ [][Next]_vars

\* Every before_request, transport send and refresh that was started
\* completes, with an answer or an error, and the lock (asyncio.Lock wakes its
\* waiters in order) is granted to each call that keeps waiting for it.
Fairness ==
    \A i \in CallIds :
        /\ WF_vars(\E d \in Durations, ok \in BOOLEAN : BeforeRequest(i, d, ok))
        /\ WF_vars(\E o \in {None} \cup {Some(s) : s \in Statuses}, d \in Durations :
                      SuperRequest(i, o, d))
        /\ WF_vars(\E d \in Durations, ok \in BOOLEAN : Refresh(i, d, ok))
        /\ SF_vars(AcquireRefreshLock(i))

FairSpec == Spec /\ Fairness

\* ---------------------------------------------------------------- Request

\* What self.session.request can do: answer with a status, or raise
\* aiohttp.ClientError, asyncio.TimeoutError or something else.
TransportOutcomes ==
    [exc : {"none"}, status : Statuses]
        \cup [exc : {"ClientError", "TimeoutError", "RuntimeError"}, status : {0}]

\* The except clauses of Request.__call__: a ClientError and an
\* asyncio.TimeoutError come out as a TransportError raised from the caught
\* exception; anything else passes through; an answer is wrapped in _Response,
\* whose status is the answer's.
NormalizeOnlyClientError(o) ==
    IF o.exc = "none" THEN [kind |-> "Response", status |-> o.status, cause |-> "none"]
    ELSE IF o.exc = "ClientError"
         THEN [kind |-> "TransportError", status |-> 0, cause |-> o.exc]
         ELSE [kind |-> o.exc, status |-> 0, cause |-> "none"]
Normalize(o) ==
    IF o.exc = "none" THEN [kind |-> "Response", status |-> o.status, cause |-> "none"]
    ELSE IF o.exc \in {"ClientError", "TimeoutError"}
         THEN [kind |-> "TransportError", status |-> 0, cause |-> o.exc]
         ELSE [kind |-> o.exc, status |-> 0, cause |-> "none"]

\* Request.__call__ is entered: it calls self.session.request and awaits it.
InvokerCall ==
    /\ invoker_pc = "idle"
    /\ Len(invoker_log) < MaxInvocations
    /\ invoker_pc' = "awaiting"
    /\ invoker_sent' = invoker_sent + 1
    /\ UNCHANGED <<invoker_log, sessionVars, frameVars, historyVars>>

\* self.session.request answers or raises (o); __call__ returns or raises.
InvokerComplete(o) ==
    /\ invoker_pc = "awaiting"
    /\ invoker_pc' = "idle"
    /\ invoker_log' = Append(invoker_log, [transport |-> o, out |-> Normalize(o)])
    /\ UNCHANGED <<invoker_sent, sessionVars, frameVars, historyVars>>

InvokerNext ==
    \/ InvokerCall
    \/ \E o \in TransportOutcomes : InvokerComplete(o)

\* The invoker on its own, next to a session nobody calls.
InvokerInit == Init /\ max_refresh_attempts = 0 /\ auth_request_session = "open"

InvokerSpec == InvokerInit /\ [][InvokerNext]_vars

\* ---------------------------------------------------------------- properties

Running == {"auth", "send", "lock", "refresh"}
Ended == {"done", "failed"}

\* How many times the call invoked op ("send" or "refresh").
Count(i, op) == Cardinality({k \in 1..Len(log[i]) : log[i][k] = op})

\* send, refresh, send, ..., send: n refreshes between n + 1 sends.
Alternating(n) == [k \in 1..(2 * n + 1) |-> IF k % 2 = 1 THEN "send" ELSE "refresh"]

\* The content of the headers the caller passed.
OriginalHeaders(i) == IF headers[i] = "None" THEN {} ELSE CallerHeaders

\* The last send of the call got response number n with this status, and
\* request() returned it.
Returned(i, n) ==
    /\ pc[i] = "done"
    /\ result[i] = "response"
    /\ response[i] = Some([status |-> statuses[i][n], send |-> n])

\* C1: at most one logical call is executing credentials.refresh at any
\* moment, whatever the interleaving of the calls in flight.
C1_RefreshMutex == Cardinality({i \in CallIds : pc[i] = "refresh"}) <= 1

\* C1's case: one call refreshes while another, which also got a refreshable
\* status, waits for the lock.
C1_Witness ==
    \E i, j \in CallIds : i # j /\ pc[i] = "refresh" /\ pc[j] = "lock"

\* C2: with max_refresh_attempts = N a call makes at most N refreshes and
\* N + 1 sends, and when all N + 1 responses are refreshable it returns the
\* last of them instead of raising.
C2_ExhaustedReturnsLast ==
    \A i \in CallIds :
        /\ Count(i, "refresh") <= max_refresh_attempts
        /\ Count(i, "send") <= max_refresh_attempts + 1
        /\ ( /\ Len(statuses[i]) = max_refresh_attempts + 1
             /\ \A k \in 1..Len(statuses[i]) : statuses[i][k] \in refresh_status_codes )
           => Returned(i, max_refresh_attempts + 1)

\* C3: with no time budget, k refreshable responses (0 < k <= N) followed by
\* one that is not give exactly k refreshes and k + 1 sends, alternating, and
\* the call returns the response of send k + 1.
C3_RetriesThenReturns ==
    \A i \in CallIds : \A k \in 1..max_refresh_attempts :
        ( /\ unbounded[i]
          /\ Len(statuses[i]) = k + 1
          /\ \A n \in 1..k : statuses[i][n] \in refresh_status_codes
          /\ statuses[i][k + 1] \notin refresh_status_codes )
        => /\ log[i] = Alternating(k)
           /\ Returned(i, k + 1)

\* C4: a call whose first response is not refreshable sends once, never
\* refreshes and returns that response.
C4_NotRefreshableReturnsAtOnce ==
    \A i \in CallIds :
        (statuses[i] # <<>> /\ statuses[i][1] \notin refresh_status_codes)
        => /\ log[i] = <<"send">>
           /\ Returned(i, 1)

\* C5: when authorization plus the first send took longer than
\* max_allowed_time, the call fails with the timeout error, having made no
\* refresh and no second send.
C5_LateCallTimesOut ==
    \A i \in CallIds :
        late[i] => /\ pc[i] = "failed"
                   /\ result[i] = "TimeoutError"
                   /\ log[i] = <<"send">>

\* C6: a call given no max_allowed_time never has a time-guard raise, however
\* long its steps take and however deep it recursed: every frame's budget and
\* remaining time are unset again.
C6_NoBudgetNoTimeout ==
    \A i \in CallIds :
        unbounded[i] => /\ ~overrun[i]
                        /\ result[i] # "TimeoutError"
                        /\ max_allowed_time[i] = None
                        /\ remaining_time[i] = None

\* C6's case: a call without budget is in its second retry after an
\* authorization step that took the longest time.
C6_Witness ==
    \E i \in CallIds :
        unbounded[i] /\ attempt[i] >= 2 /\ pc[i] = "send" /\ auth_elapsed[i] = MaxDur

\* C7: request() never changes the caller's headers mapping, and on every
\* attempt before_request is handed a mapping of its own whose content is the
\* caller's original headers.
C7_CallerHeadersUntouched ==
    \A i \in CallIds :
        /\ heap[i]["caller"] = OriginalHeaders(i)
        /\ received[i] # None => /\ received[i][1].ref # "caller"
                                 /\ received[i][1].content = OriginalHeaders(i)

\* C7's case: the caller passed a mapping, and the retry after a refresh has
\* been authorized (its copy carries the authorization header).
C7_Witness ==
    \E i \in CallIds :
        /\ headers[i] = "caller" /\ attempt[i] >= 1 /\ pc[i] = "send"
        /\ AuthHeader \in heap[i][request_headers[i]]

\* What the call invoked last, if anything.
LastOp(i) == IF log[i] = <<>> THEN "none" ELSE log[i][Len(log[i])]

\* The error the credentials step raised.
CredentialsExc(i) ==
    IF raised[i] = "before_request" THEN "CredentialsError" ELSE "RefreshError"

\* After the credentials step raised the call has ended, and it invoked
\* nothing after that step: the refresh that raised is its last operation, and
\* the send of a frame whose before_request raised was never issued.
StoppedAtRaise(i) ==
    /\ pc[i] = "failed"
    /\ raised[i] = "refresh" => LastOp(i) = "refresh"
    /\ raised[i] = "before_request" => LastOp(i) \in {"none", "refresh"}

TimedOutCallEnded ==
    \A i \in CallIds :
        overrun[i] => /\ pc[i] = "failed"
                      /\ result[i] = "TimeoutError"
                      /\ refresh_lock # i

\* C9, for the other calls: the step in which a call times out leaves every
\* other call where it was, a refresh in progress included, and a call that
\* has ended invokes nothing more.
TimeoutLeavesOthers ==
    \A i \in CallIds :
        /\ (overrun'[i] /\ ~overrun[i]) =>
               \A j \in CallIds \ {i} :
                   /\ pc'[j] = pc[j] /\ result'[j] = result[j] /\ log'[j] = log[j]
                   /\ refresh_lock = j => refresh_lock' = j
        /\ overrun[i] => (pc'[i] = pc[i] /\ log'[i] = log[i] /\ result'[i] = result[i])

\* C9: a time-guard that finds its step over the remaining budget, at any
\* recursion depth, fails the whole logical call with the timeout error; the
\* call issues no later send, refresh or retry, and no other call on the
\* session is aborted or loses its refresh.
C9_TimeoutAbortsOnlyItsCall == []TimedOutCallEnded /\ [][TimeoutLeavesOthers]_vars

\* C9's case: a call timed out in a recursive frame (it had refreshed) while
\* another call is refreshing.
C9_Witness ==
    \E i, j \in CallIds :
        /\ i # j /\ overrun[i] /\ Count(i, "refresh") >= 1 /\ LastOp(i) = "send"
        /\ pc[j] = "refresh"

\* C10: with a caller-supplied auth_request (the session owns no auth
\* transport), a call whose last response is not refreshable, or whose
\* attempts are exhausted, returns that response: the cleanup raises nothing
\* and closes nothing.
C10_SuppliedAuthRequestReturns ==
    \A i \in CallIds :
        LET n == Len(statuses[i]) IN
        ( /\ auth_request_session = "None"
          /\ n > 0
          /\ ~ShouldRefresh(statuses[i][n], n - 1) )
        => Returned(i, n)


\* C11: in a session that created its own auth transport, a call that
\* returned a response closed that transport exactly once, whatever the
\* number of retries it went through, and a call that has not returned has
\* not closed it: the close comes after the call's last send.
C11_ClosedOncePerCall ==
    auth_request_session # "None" =>
        \A i \in CallIds :
            /\ pc[i] = "done" => closes[i] = 1
            /\ pc[i] # "done" => closes[i] = 0

\* C11's case: a call returned a response after two refreshes and three sends.
C11_Witness ==
    \E i \in CallIds :
        /\ pc[i] = "done" /\ log[i] = Alternating(2) /\ closes[i] = 1
        /\ auth_request_session = "closed"


\* A step in which the call invokes credentials.before_request or
\* credentials.refresh, either with the session's auth-request invoker.
InvokesCredentials(i) ==
    \/ pc[i] = "auth" /\ pc'[i] # "auth"
    \/ pc[i] = "lock" /\ pc'[i] = "refresh"

\* C12: the session's own auth transport is closed only after use:
\* before_request and refresh are never invoked with an invoker whose
\* transport an earlier or concurrent logical call has already closed.
C12_NeverUsesClosedTransport ==
    [][\A i \in CallIds : InvokesCredentials(i) => auth_request_session # "closed"]_vars


\* C13: calls serialize on the refresh step only: a call that is authorizing
\* or sending does not hold the refresh lock, and what it waits for is never
\* the lock, so its step can be taken whoever holds the lock.
C13_SendNeedsNoLock ==
    \A i \in CallIds :
        pc[i] \in {"auth", "send"} =>
            /\ refresh_lock # i
            /\ pc[i] = "auth" => ENABLED BeforeRequest(i, 0, TRUE)
            /\ pc[i] = "send" => ENABLED SuperRequest(i, Some(200), 0)

\* C13's case: two calls are in their send step at the same time.
C13_Witness == \A i \in CallIds : pc[i] = "send"


\* C14: Request.__call__ is a single-attempt primitive: every invocation
\* makes exactly one transport request; an answer comes back as a Response
\* with the answer's status, and a client error or a timeout of the transport
\* comes out as one TransportError wrapping the cause, with no second send.
C14_SingleAttempt ==
    /\ invoker_sent = Len(invoker_log) + (IF invoker_pc = "awaiting" THEN 1 ELSE 0)
    /\ \A k \in 1..Len(invoker_log) :
          LET t == invoker_log[k].transport
              out == invoker_log[k].out
          IN /\ t.exc = "none" => out.kind = "Response" /\ out.status = t.status
             /\ t.exc \in {"ClientError", "TimeoutError"} =>
                    out.kind = "TransportError" /\ out.cause = t.exc

\* C14's case: the invoker was called three times; the transport answered
\* once, timed out once and failed with a client error once.
C14_Witness ==
    /\ invoker_pc = "idle" /\ invoker_sent = 3
    /\ \A x \in {"none", "ClientError", "TimeoutError"} :
          \E k \in 1..Len(invoker_log) : invoker_log[k].transport.exc = x


\* C15: the time budget is cumulative across the steps of a logical call;
\* its first link: the budget the second time-guard enforces on the transport
\* send is max_allowed_time minus the time the authorization step took.
C15_SendBudgetIsWhatAuthLeft ==
    \A i \in CallIds :
        pc[i] = "send" /\ max_allowed_time[i] # None =>
            remaining_time[i] = Some(max_allowed_time[i][1] - auth_elapsed[i])


\* A call waits in front of the lock while another call's refresh is in flight.
WaitsBehind(i, j) == i # j /\ pc[i] = "lock" /\ pc[j] = "refresh"

\* C16: a call that got a refreshable status while another call's refresh is
\* in flight waits for it: as long as that refresh has not finished it starts
\* neither its own credentials.refresh nor its retried send.
C16_WaitsForInFlightRefresh ==
    [][\A i, j \in CallIds :
          WaitsBehind(i, j) => pc'[i] = "lock" /\ log'[i] = log[i]]_vars

\* C16's case: the lock is held by a refreshing call and the other call holds
\* a refreshable response with attempts left.
C16_Witness ==
    \E i, j \in CallIds :
        /\ WaitsBehind(i, j) /\ refresh_lock = j
        /\ response[i] # None
        /\ ShouldRefresh(response[i][1].status, attempt[i])


\* The refreshes the call has completed: those it started, less the one in
\* flight.
CompletedRefreshes(i) == Count(i, "refresh") - (IF pc[i] = "refresh" THEN 1 ELSE 0)

\* In every frame the counter is the number of completed refreshes (0 in the
\* frame an external caller entered), and its key is neither left in the
\* frame's options nor was it ever passed to the transport.
AttemptCounterInternal ==
    \A i \in CallIds :
        /\ pc[i] \in Running =>
              /\ attempt[i] = CompletedRefreshes(i)
              /\ AttemptKey \notin DOMAIN kwargs[i]
        /\ AttemptKey \notin forwarded[i]

\* A recursive retry enters its frame with the counter one higher.
RetryIncrementsAttempt ==
    \A i \in CallIds :
        pc[i] = "refresh" /\ pc'[i] = "auth" => attempt'[i] = attempt[i] + 1

\* C17: the refresh-attempt counter is 0 on an external call, goes up by one
\* on each recursive retry, equals in every frame the number of refreshes the
\* call has completed, and is popped from the options before the send, so the
\* transport never receives it.
C17_AttemptCounter == []AttemptCounterInternal /\ [][RetryIncrementsAttempt]_vars

\* C17's case: the second retry's send is in flight; the transport was passed
\* the caller's options on every send.
C17_Witness ==
    \E i \in CallIds :
        /\ pc[i] = "send" /\ attempt[i] = 2 /\ log[i] = Alternating(2)
        /\ forwarded[i] = DOMAIN CallerOptions


\* C18: the refresh lock is held exactly while a call is inside its refresh,
\* by that call, and is released on every way out (refresh returned, refresh
\* raised, time-guard raised): a call that has ended never holds the lock.
C18_LockHeldOnlyWhileRefreshing ==
    /\ refresh_lock \in {"unlocked"} \cup CallIds
    /\ \A i \in CallIds :
          /\ refresh_lock = i <=> pc[i] = "refresh"
          /\ pc[i] \in Ended => refresh_lock # i

\* C18's case: a call ended in its refresh step, which raised or ran over
\* time; after that the other call took the lock.
C18_Witness ==
    \E i, k \in CallIds :
        /\ pc[i] = "failed" /\ LastOp(i) = "refresh"
        /\ raised[i] = "refresh" \/ overrun[i]
        /\ pc[k] = "refresh" /\ refresh_lock = k


\* C19: when every before_request, send and refresh completes and the lock is
\* granted fairly, every logical call that was started terminates, with a
\* response or an exception, whatever the other call does and whatever
\* statuses arrive.
C19_EveryCallTerminates ==
    \A i \in CallIds : (pc[i] \in Running) ~> (pc[i] \in Ended)

\* C19's case: both calls ran concurrently through all their refreshes and
\* both have ended.
C19_Witness ==
    \A i \in CallIds :
        pc[i] \in Ended /\ Count(i, "refresh") = MaxAttempts /\ Len(statuses[i]) > 0


\* How many of the call's responses were refreshable with attempts left: the
\* k-th response arrives in the frame whose counter is k - 1.
RefreshableSeen(i) ==
    Cardinality({k \in 1..Len(statuses[i]) : ShouldRefresh(statuses[i][k], k - 1)})

\* C20: refreshes are serialized, not coalesced: a call invokes
\* credentials.refresh once for every refreshable response it got with
\* attempts left (the one it still waits to do at the lock aside), whatever
\* the other calls refreshed; so when every call got one refreshable response
\* and then another one, there were as many refreshes as calls.
C20_RefreshesNotCoalesced ==
    /\ \A i \in CallIds :
          Count(i, "refresh") = RefreshableSeen(i) - (IF pc[i] = "lock" THEN 1 ELSE 0)
    /\ (\A i \in CallIds : pc[i] \in Ended /\ statuses[i] = <<401, 200>>) =>
          Count("c1", "refresh") + Count("c2", "refresh") = Cardinality(CallIds)

\* C20's case: both calls got 401 and then 200, and each has refreshed once,
\* the second of them after the first one's refresh.
C20_Witness ==
    /\ refresh_lock = "unlocked"
    /\ \A i \in CallIds :
          /\ pc[i] \in Ended /\ statuses[i] = <<401, 200>>
          /\ log[i] = Alternating(1)

====
